---------------------------- MODULE Spec2Model ----------------------------
(***************************************************************************)
(* Model of the LendingClubDefaultPredictor notebooks.                     *)
(*                                                                         *)
(*  - notebooks/preproc_emp_titles (the first notebook): sanitize,         *)
(*    filter_common_columns, the emp_title categorisation, the row filter  *)
(*    and the target coding;                                               *)
(*  - the notebook reproduced in README.md (the second notebook): p2f,     *)
(*    one_hot_encoder, letterSubGradesToNumeric, preprocess_LC_df and the  *)
(*    cells that follow it up to the export of preproc_lc.csv.             *)
(*                                                                         *)
(* Python strings are TLA+ strings; a dataframe cell is a record (Str,     *)
(* Num or NaN below) so that columns of mixed content stay comparable.     *)
(***************************************************************************)
EXTENDS Integers, Sequences, FiniteSets, TLC

VARIABLES
    pc,      \* position of the run: the next cell / statement, or "call"/"return"
    arg,     \* argument of the function under call (function-level specifications)
    ret,     \* its return value
    emp_df,  \* the dataframe df of the first notebook (a sequence of rows)
    disk,    \* the CSV files: the inputs read and the export written
    df,      \* the dataframe df of the second notebook (column name -> column)
    local_df,\* the df of a running preprocess_LC_df (the caller's object until the merge)
    third,   \* zips, lat_lon, unemp as returned by preprocess_third_party_src
    steps    \* the pipeline steps finished so far, in order

vars == <<pc, arg, ret, emp_df, disk, df, local_df, third, steps>>

None == "None"

(***************************************************************************)
(* Strings and cells                                                       *)
(***************************************************************************)

\* s[i-1] of Python: the one-character string at (1-based) position i.
Ch(s, i) == SubSeq(s, i, i)

\* The characters of s, as a set of one-character strings.
Chars(s) == {Ch(s, i) : i \in 1..Len(s)}

\* Printable ASCII in code order: ' ' (32) to '_' (95), then 'a' (97) to '~' (126).
AsciiLow == " !\"#$%&'()*+,-./0123456789:;<=>?@ABCDEFGHIJKLMNOPQRSTUVWXYZ[\\]^_"

AsciiHigh == "abcdefghijklmnopqrstuvwxyz{|}~"

\* ord(c) for a printable ASCII character.
Ord(c) ==
    IF c \in Chars(AsciiLow)
    THEN 31 + CHOOSE i \in 1..Len(AsciiLow) : Ch(AsciiLow, i) = c
    ELSE 96 + CHOOSE i \in 1..Len(AsciiHigh) : Ch(AsciiHigh, i) = c

IsDigit(c) == c \in Chars("0123456789")

IsAlpha(c) == c \in Chars("ABCDEFGHIJKLMNOPQRSTUVWXYZabcdefghijklmnopqrstuvwxyz")

\* int(c) for a digit character.
IntOfDigit(c) == Ord(c) - 48

\* str.isnumeric() restricted to ASCII: non-empty and only digits.
IsNumeric(s) == Len(s) > 0 /\ \A i \in 1..Len(s) : IsDigit(Ch(s, i))

RECURSIVE StrsOfLen(_, _)
StrsOfLen(A, n) ==
    IF n = 0 THEN {""} ELSE {s \o c : s \in StrsOfLen(A, n - 1), c \in A}

StrsUpTo(A, n) == UNION {StrsOfLen(A, k) : k \in 0..n}

\* Dataframe cells: a Python str, a number, or NaN (a missing value).
Str(s) == [kind |-> "str", s |-> s, n |-> 0]
Num(n) == [kind |-> "int", s |-> "", n |-> n]
NaN    == [kind |-> "nan", s |-> "", n |-> 0]

IsStr(c) == c.kind = "str"
IsNull(c) == c.kind = "nan"

SeqsUpTo(S, n) == UNION {[1..k -> S] : k \in 0..n}

Range(f) == {f[i] : i \in DOMAIN f}

(***************************************************************************)
(* letterSubGradesToNumeric (README.md, second notebook)                   *)
(***************************************************************************)

MaxGradeRows == 2

\* sub_grade values: a letter A..G and a digit.
SubGrades == {l \o d : l \in Chars("ABCDEFG"), d \in Chars("0123456789")}

\* num = (ord(grade[0]) - 65)*5 + int(grade[1]); gradeDict[grade] = 36 - num
GradeScore(grade) ==
    LET num == (Ord(Ch(grade, 1)) - 65) * 5 + IntOfDigit(Ch(grade, 2))
    IN  36 - num

\* gradeDict: built from the unique str values of df.sub_grade.
gradeDict(col) ==
    LET grades == {c.s : c \in {x \in Range(col) : IsStr(x)}}
    IN  [g \in grades |-> GradeScore(g)]

\* df['sub_grade'].replace(gradeDict, inplace = True)
letterSubGradesToNumeric(col) ==
    LET d == gradeDict(col)
    IN  [i \in DOMAIN col |->
            IF IsStr(col[i]) /\ col[i].s \in DOMAIN d THEN Num(d[col[i].s])
            ELSE col[i]]

InitGrade ==
    /\ pc = "call"
    /\ arg \in SeqsUpTo({Str(g) : g \in SubGrades} \cup {NaN}, MaxGradeRows) \ {<<>>}
    /\ ret = None
    /\ emp_df = None /\ disk = None /\ df = None /\ local_df = None
    /\ third = None /\ steps = <<>>

CallLetterSubGrades ==
    /\ pc = "call"
    /\ ret' = letterSubGradesToNumeric(arg)
    /\ pc' = "return"
    /\ UNCHANGED <<arg, emp_df, disk, df, local_df, third, steps>>

NextGrade == CallLetterSubGrades

SpecGrade == InitGrade /\ [][NextGrade]_vars

\* C2: letterSubGradesToNumeric maps sub_grade A1 to 36 and G6 to 1.
C2_DocstringScores ==
    pc = "return" =>
        \A i \in DOMAIN arg :
            /\ arg[i] = Str("A1") => ret[i] = Num(36)
            /\ arg[i] = Str("G6") => ret[i] = Num(1)

(***************************************************************************)
(* sanitize (first notebook)                                               *)
(***************************************************************************)

MaxJobLen == 4

\* invalidChars = set(string.punctuation); the backquote, which a TLA+ string
\* cannot hold, is left out (no input below contains it).
invalidChars == Chars("!\"#$%&'()*+,-./:;<=>?@[\\]^_{|}~")

\* for char in invalidChars: if char in job: job = job.replace(char, ' ')
RECURSIVE ReplaceInvalid(_)
ReplaceInvalid(job) ==
    IF job = "" THEN ""
    ELSE (IF Ch(job, 1) \in invalidChars THEN " " ELSE Ch(job, 1))
            \o ReplaceInvalid(SubSeq(job, 2, Len(job)))

\* str.split(' '): the pieces between single spaces, empty pieces included.
RECURSIVE SplitSpace(_)
SplitSpace(s) ==
    IF " " \notin Chars(s) THEN <<s>>
    ELSE LET i == CHOOSE k \in 1..Len(s) :
                     Ch(s, k) = " " /\ \A j \in 1..(k - 1) : Ch(s, j) # " "
         IN  <<SubSeq(s, 1, i - 1)>> \o SplitSpace(SubSeq(s, i + 1, Len(s)))

\* ''.join(arr)
RECURSIVE JoinEmpty(_)
JoinEmpty(arr) == IF arr = <<>> THEN "" ELSE Head(arr) \o JoinEmpty(Tail(arr))

sanitize(job) ==
    LET job1 == ReplaceInvalid(job)
    IN  IF Len(job1) <= 3
        THEN JoinEmpty(SelectSeq(SplitSpace(job1), LAMBDA x : x # ""))
        ELSE job1

JobAlphabet == {"a", "Z", "7", " ", "&", "."}

InitSanitize ==
    /\ pc = "call"
    /\ arg \in StrsUpTo(JobAlphabet, MaxJobLen)
    /\ ret = None
    /\ emp_df = None /\ disk = None /\ df = None /\ local_df = None
    /\ third = None /\ steps = <<>>

CallSanitize ==
    /\ pc = "call"
    /\ ret' = sanitize(arg)
    /\ pc' = "return"
    /\ UNCHANGED <<arg, emp_df, disk, df, local_df, third, steps>>

NextSanitize == CallSanitize

SpecSanitize == InitSanitize /\ [][NextSanitize]_vars

\* C8: the string sanitize returns contains only alphabetical characters.
C8_OnlyAlphabetical ==
    pc = "return" => \A i \in 1..Len(ret) : IsAlpha(Ch(ret, i))

(***************************************************************************)
(* filter_common_columns (first notebook)                                  *)
(***************************************************************************)

MaxFilterCols == 3

Contains(cols, c) == \E i \in DOMAIN cols : cols[i] = c

\* DataFrame.drop(columns = [c]): every column labelled c goes.
DropColumn(cols, c) == SelectSeq(cols, LAMBDA x : x # c)

\* for col in array: if col in test: drop from test elif col in train: drop from train
RECURSIVE DropLoop(_, _, _)
DropLoop(array, train_df, test_df) ==
    IF array = <<>> THEN [train_df |-> train_df, test_df |-> test_df]
    ELSE LET col == Head(array)
         IN  IF Contains(test_df, col)
             THEN DropLoop(Tail(array), train_df, DropColumn(test_df, col))
             ELSE IF Contains(train_df, col)
             THEN DropLoop(Tail(array), DropColumn(train_df, col), test_df)
             ELSE DropLoop(Tail(array), train_df, test_df)

\* A slip that forgets the second loop (the columns only train_df has).
filter_common_columns_TestOnly(train_df, test_df) ==
    DropLoop(SelectSeq(test_df, LAMBDA e : ~Contains(train_df, e)), train_df, test_df)

filter_common_columns(train_df, test_df) ==
    LET array == SelectSeq(test_df, LAMBDA e : ~Contains(train_df, e))
                    \o SelectSeq(train_df, LAMBDA e : ~Contains(test_df, e))
    IN  DropLoop(array, train_df, test_df)

FilterColNames == {"loan_amnt", "sub_grade", "lat", "target"}

InitFilter ==
    /\ pc = "call"
    /\ arg \in [train_df : SeqsUpTo(FilterColNames, MaxFilterCols),
                test_df  : SeqsUpTo(FilterColNames, MaxFilterCols)]
    /\ ret = None
    /\ emp_df = None /\ disk = None /\ df = None /\ local_df = None
    /\ third = None /\ steps = <<>>

CallFilterCommonColumns ==
    /\ pc = "call"
    /\ ret' = filter_common_columns(arg.train_df, arg.test_df)
    /\ pc' = "return"
    /\ UNCHANGED <<arg, emp_df, disk, df, local_df, third, steps>>

NextFilter == CallFilterCommonColumns

SpecFilter == InitFilter /\ [][NextFilter]_vars

\* C6: after filter_common_columns both returned dataframes have the same set
\* of columns, and it is exactly the intersection of the two original sets.
C6_CommonColumns ==
    pc = "return" =>
        /\ Range(ret.train_df) = Range(ret.test_df)
        /\ Range(ret.train_df) = Range(arg.train_df) \cap Range(arg.test_df)

\* C6's case: each dataframe had a column of its own and they shared one.
C6_Witness ==
    /\ pc = "return"
    /\ Range(arg.train_df) \ Range(arg.test_df) # {}
    /\ Range(arg.test_df) \ Range(arg.train_df) # {}
    /\ Range(ret.train_df) # {}
    /\ Len(ret.train_df) < Len(arg.train_df)
    /\ Len(ret.test_df) < Len(arg.test_df)

(***************************************************************************)
(* The column renaming after one_hot_encoder (second notebook)             *)
(***************************************************************************)

MaxNameLen == 2

\* regex = re.compile(r"\[|\]|<|\040|_\040|\(|\)"); regex.sub("_", col):
\* scanning from the left, the first alternative that matches at a position is
\* replaced by "_"; "_ " is reached only where a '_' is followed by a space.
RECURSIVE RegexSubNoLt(_)
RegexSubNoLt(col) ==
    IF col = "" THEN ""
    ELSE IF Ch(col, 1) \in {"[", "]", " "}
    THEN "_" \o RegexSubNoLt(SubSeq(col, 2, Len(col)))
    ELSE IF Len(col) >= 2 /\ SubSeq(col, 1, 2) = "_ "
    THEN "_" \o RegexSubNoLt(SubSeq(col, 3, Len(col)))
    ELSE IF Ch(col, 1) \in {"(", ")"}
    THEN "_" \o RegexSubNoLt(SubSeq(col, 2, Len(col)))
    ELSE Ch(col, 1) \o RegexSubNoLt(SubSeq(col, 2, Len(col)))

RECURSIVE RegexSubRec(_)
RegexSubRec(col) ==
    IF col = "" THEN ""
    ELSE IF Ch(col, 1) \in {"[", "]", "<", " "}
    THEN "_" \o RegexSubRec(SubSeq(col, 2, Len(col)))
    ELSE IF Len(col) >= 2 /\ SubSeq(col, 1, 2) = "_ "
    THEN "_" \o RegexSubRec(SubSeq(col, 3, Len(col)))
    ELSE IF Ch(col, 1) \in {"(", ")"}
    THEN "_" \o RegexSubRec(SubSeq(col, 2, Len(col)))
    ELSE Ch(col, 1) \o RegexSubRec(SubSeq(col, 2, Len(col)))

RegexSub(col) == RegexSubRec(col)

\* regex.sub("_", col) if any(x in str(col) for x in ('[', ']', '<', '+', ' ')) else col
RenameColumn(col) ==
    IF Chars(col) \cap {"[", "]", "<", "+", " "} # {} THEN RegexSub(col) ELSE col

\* df.columns = [... for col in df.columns.values]
RenameColumns(columns) == [i \in DOMAIN columns |-> RenameColumn(columns[i])]

NameAlphabet == {"a", "[", "]", "<", " ", "_", "(", ")", "+"}

ColumnNames == StrsUpTo(NameAlphabet, MaxNameLen) \ {""}

InitRename ==
    /\ pc = "call"
    /\ arg \in [1..2 -> ColumnNames]
    /\ ret = None
    /\ emp_df = None /\ disk = None /\ df = None /\ local_df = None
    /\ third = None /\ steps = <<>>

CallRenameColumns ==
    /\ pc = "call"
    /\ ret' = RenameColumns(arg)
    /\ pc' = "return"
    /\ UNCHANGED <<arg, emp_df, disk, df, local_df, third, steps>>

NextRename == CallRenameColumns

SpecRename == InitRename /\ [][NextRename]_vars

\* C9: after the renaming no column name contains '[', ']' or '<'.
C9_NoForbiddenChars ==
    pc = "return" =>
        \A i \in DOMAIN ret : Chars(ret[i]) \cap {"[", "]", "<"} = {}

\* C9's case: names holding the forbidden characters went through the renaming.
C9_Witness ==
    /\ pc = "return"
    /\ "<" \in Chars(arg[1])
    /\ "[" \in Chars(arg[2]) /\ "]" \in Chars(arg[2])
    /\ ret[1] # arg[1] /\ ret[2] # arg[2]

(***************************************************************************)
(* one_hot_encoder (second notebook)                                       *)
(*                                                                         *)
(* Here a dataframe is a sequence of columns [name, dtype, values].        *)
(***************************************************************************)

OneHotRows == 2

Names(frame) == {frame[i].name : i \in DOMAIN frame}

\* The str values a column may hold, in their sort order.
OneHotLevels == <<"x", "y">>

\* The levels of a column: its distinct non-null values, sorted.
Levels(col) == SelectSeq(OneHotLevels, LAMBDA v : Str(v) \in Range(col.values))

\* One indicator column of col: 1 where the cell is the level, else 0.
Dummy(col, v) ==
    [name   |-> col.name \o "_" \o v,
     dtype  |-> "uint8",
     values |-> [i \in DOMAIN col.values |->
                    IF col.values[i] = Str(v) THEN Num(1) ELSE Num(0)]]

\* The indicator column of the missing values (dummy_na), named <col>_nan.
DummyNa(col) ==
    [name   |-> col.name \o "_nan",
     dtype  |-> "uint8",
     values |-> [i \in DOMAIN col.values |->
                    IF IsNull(col.values[i]) THEN Num(1) ELSE Num(0)]]

\* The indicator columns of one encoded column: a column per level, then the
\* NaN column when dummy_na is set.
Dummies1d(col, dummy_na) ==
    LET lv == Levels(col)
    IN  [i \in 1..Len(lv) |-> Dummy(col, lv[i])]
            \o (IF dummy_na THEN <<DummyNa(col)>> ELSE <<>>)

RECURSIVE ConcatDummies(_, _)
ConcatDummies(cols, dummy_na) ==
    IF cols = <<>> THEN <<>>
    ELSE Dummies1d(Head(cols), dummy_na) \o ConcatDummies(Tail(cols), dummy_na)

\* A slip that never adds the NaN indicator column.
get_dummies_NoNa(frame, columns, dummy_na) ==
    IF frame = <<>> THEN [raised |-> "ValueError", frame |-> <<>>]
    ELSE [raised |-> None,
          frame  |-> SelectSeq(frame, LAMBDA c : c.name \notin columns)
                        \o ConcatDummies(SelectSeq(frame, LAMBDA c : c.name \in columns),
                                         FALSE)]

\* pd.get_dummies(df, columns = columns, dummy_na = dummy_na): the columns
\* not encoded, in place, followed by the indicator columns of each encoded one.
\* On a frame without columns there is nothing to keep and nothing to encode,
\* and the final concat of no frames raises ValueError.
get_dummies(frame, columns, dummy_na) ==
    IF frame = <<>> THEN [raised |-> "ValueError", frame |-> <<>>]
    ELSE [raised |-> None,
          frame  |-> SelectSeq(frame, LAMBDA c : c.name \notin columns)
                        \o ConcatDummies(SelectSeq(frame, LAMBDA c : c.name \in columns),
                                         dummy_na)]

\* The exception of get_dummies is not caught: raised tells it, and then
\* nothing is returned.
one_hot_encoder(frame, nan_as_category) ==
    LET original_columns == Names(frame)
        categorical_columns ==
            {frame[i].name : i \in {j \in DOMAIN frame : frame[j].dtype = "object"}}
        r   == get_dummies(frame, categorical_columns, nan_as_category)
        out == r.frame
        new == SelectSeq(out, LAMBDA c : c.name \notin original_columns)
    IN  [raised |-> r.raised, df |-> out,
         new_columns |-> [i \in DOMAIN new |-> new[i].name]]

\* The column names of the input frames, in frame order; "a_x" is also the
\* name of the indicator column of value x of column "a".
OneHotNames == <<"a", "a_x", "b">>

Absent == [name |-> "", dtype |-> "absent", values |-> <<>>]

OneHotColumns(name) ==
    [name : {name}, dtype : {"object"},
     values : [1..OneHotRows -> {Str("x"), Str("y"), NaN}]]
    \cup
    [name : {name}, dtype : {"float64"},
     values : [1..OneHotRows -> {Num(1), NaN}]]

OneHotFrames ==
    {SelectSeq(f, LAMBDA c : c # Absent) :
        f \in {g \in [1..Len(OneHotNames) -> UNION {OneHotColumns(OneHotNames[k]) :
                                       k \in 1..Len(OneHotNames)} \cup {Absent}] :
                 \A k \in 1..Len(OneHotNames) :
                     g[k] = Absent \/ g[k].name = OneHotNames[k]}}

InitOneHot ==
    /\ pc = "call"
    /\ arg \in [df : OneHotFrames, nan_as_category : BOOLEAN]
    /\ ret = None
    /\ emp_df = None /\ disk = None /\ df = None /\ local_df = None
    /\ third = None /\ steps = <<>>

CallOneHotEncoder ==
    /\ pc = "call"
    /\ LET r == one_hot_encoder(arg.df, arg.nan_as_category)
       IN  IF r.raised = None
           THEN pc' = "return" /\ ret' = [df |-> r.df, new_columns |-> r.new_columns]
           ELSE pc' = "error" /\ ret' = [raised |-> r.raised]
    /\ UNCHANGED <<arg, emp_df, disk, df, local_df, third, steps>>

NextOneHot == CallOneHotEncoder

SpecOneHot == InitOneHot /\ [][NextOneHot]_vars

\* C10: one_hot_encoder returns a dataframe with no object-typed column, in
\* which every non-categorical input column is still present unchanged and every
\* distinct value of a categorical column has its indicator column; new_columns
\* is exactly the set of returned column names that were not input column names;
\* with nan_as_category each encoded column also has its missing-value indicator.
C10_OneHotEncoder ==
    pc = "return" =>
        /\ \A c \in Range(ret.df) : c.dtype # "object"
        /\ \A c \in Range(arg.df) : c.dtype # "object" => c \in Range(ret.df)
        /\ \A c \in Range(arg.df) : c.dtype = "object" =>
              \A i \in DOMAIN c.values : IsStr(c.values[i]) =>
                  \E d \in Range(ret.df) :
                      /\ d.name = c.name \o "_" \o c.values[i].s
                      /\ d.dtype = "uint8"
                      /\ \A j \in DOMAIN c.values :
                            d.values[j] = Num(1) <=> c.values[j] = c.values[i]
        /\ Range(ret.new_columns) = Names(ret.df) \ Names(arg.df)
        /\ arg.nan_as_category =>
              \A c \in Range(arg.df) : c.dtype = "object" =>
                  \E d \in Range(ret.df) :
                      /\ d.name = c.name \o "_nan"
                      /\ d.dtype = "uint8"
                      /\ \A j \in DOMAIN c.values :
                            d.values[j] = Num(1) <=> IsNull(c.values[j])

\* C10's case: a frame with a categorical column holding a value and a missing
\* cell, beside a numeric column, was encoded with nan_as_category.
C10_Witness ==
    /\ pc = "return"
    /\ arg.nan_as_category
    /\ \E c \in Range(arg.df) :
          c.dtype = "object" /\ NaN \in Range(c.values) /\ Str("y") \in Range(c.values)
    /\ \E c \in Range(arg.df) : c.dtype = "float64"
    /\ Len(ret.new_columns) >= 2

(***************************************************************************)
(* The first notebook from the categorisation of emp_title to the export   *)
(* of coded_emp_target.csv.  A row holds the columns these cells touch.    *)
(***************************************************************************)

MaxEmpRows == 2

\* top200occs_lc.txt: emp_title strings with their 2-digit isco_08 code
\* (the file is data outside the repository's code; two entries stand for it).
sub_major_dict == [s \in {"teacher", "nurse"} |-> IF s = "teacher" THEN "23" ELSE "22"]

\* sub_major_titles.txt: the 2-digit codes with their titles.
sub_major_title_dict ==
    [s \in {"23", "22"} |->
        IF s = "23" THEN "Teaching professionals" ELSE "Health professionals"]

\* The job column categorize_emp_titles leaves: a title of the lookup, a title
\* absent from it, a title made of digits only, or nothing.
Jobs == {Str("teacher"), Str("nurse"), Str("welder"), Str("911"), NaN}

\* loan_status as printed by df['loan_status'].value_counts(), or missing.
LoanStatuses ==
    {Str("Current"), Str("Fully Paid"), Str("Charged Off"), Str("Issued"),
     Str("Late (31-120 days)"), Str("In Grace Period"), Str("Late (16-30 days)"),
     Str("Default"), NaN}

\* Series.dropna().replace(dict), assigned back: a str cell that is a key is
\* replaced by its value, any other cell stays.
ReplaceByDict(cell, dict) ==
    IF IsStr(cell) /\ cell.s \in DOMAIN dict THEN Str(dict[cell.s]) ELSE cell

\* Series.dropna().str.isnumeric(), assigned back.
IsNumericCell(cell) ==
    IF IsStr(cell) THEN (IF IsNumeric(cell.s) THEN "True" ELSE "False") ELSE "NaN"

\* A slip that counts 'Late (16-30 days)' as defaulted and forgets 'Default'.
IsDefaultedLate16(x) ==
    x \in {Str("Charged Off"), Str("Late (16-30 days)"), Str("Late (31-120 days)")}

\* lambda x: x in ['Charged Off', 'Default', 'Late (31-120 days)']
IsDefaulted(x) ==
    x \in {Str("Charged Off"), Str("Default"), Str("Late (31-120 days)")}

InitEmp ==
    /\ pc = "categorize"
    /\ emp_df \in SeqsUpTo([job : Jobs, loan_status : LoanStatuses], MaxEmpRows)
    /\ arg = None /\ ret = None
    /\ disk = None /\ df = None /\ local_df = None /\ third = None /\ steps = <<>>

\* df['sub_mjr_grp_isco_08_code'] = df['job'].dropna().replace(sub_major_dict)
\* df['sub_mjr_grp_isco_08_title'] = df[code].dropna().replace(sub_major_title_dict)
CategorizeEmpTitles ==
    /\ pc = "categorize"
    /\ emp_df' =
         [i \in DOMAIN emp_df |->
            LET code == ReplaceByDict(emp_df[i].job, sub_major_dict)
            IN  [job |-> emp_df[i].job,
                 loan_status |-> emp_df[i].loan_status,
                 sub_mjr_grp_isco_08_code |-> code,
                 sub_mjr_grp_isco_08_title |->
                     ReplaceByDict(code, sub_major_title_dict)]]
    /\ pc' = "filter"
    /\ UNCHANGED <<arg, ret, disk, df, local_df, third, steps>>

\* df['isnumeric'] = ...; df = df[df['isnumeric'] == True]; df.reset_index()
FilterUncategorized ==
    /\ pc = "filter"
    /\ LET marked ==
             [i \in DOMAIN emp_df |->
                [index |-> i - 1,
                 job |-> emp_df[i].job,
                 loan_status |-> emp_df[i].loan_status,
                 sub_mjr_grp_isco_08_code |-> emp_df[i].sub_mjr_grp_isco_08_code,
                 sub_mjr_grp_isco_08_title |-> emp_df[i].sub_mjr_grp_isco_08_title,
                 isnumeric |-> IsNumericCell(emp_df[i].sub_mjr_grp_isco_08_code)]]
       IN  emp_df' = SelectSeq(marked, LAMBDA r : r.isnumeric = "True")
    /\ pc' = "target"
    /\ UNCHANGED <<arg, ret, disk, df, local_df, third, steps>>

\* df['status'] = ...; df['target'] = df.status.astype(int); df.drop(droplist)
CodeTarget ==
    /\ pc = "target"
    /\ emp_df' =
         [i \in DOMAIN emp_df |->
            [sub_mjr_grp_isco_08_title |-> emp_df[i].sub_mjr_grp_isco_08_title,
             target |-> IF IsDefaulted(emp_df[i].loan_status) THEN 1 ELSE 0]]
    /\ pc' = "export"
    /\ UNCHANGED <<arg, ret, disk, df, local_df, third, steps>>

\* df.to_csv('../data/exports/coded_emp_target.csv')
ExportCodedEmpTarget ==
    /\ pc = "export"
    /\ disk' = [coded_emp_target |-> emp_df]
    /\ pc' = "exported"
    /\ UNCHANGED <<arg, ret, emp_df, df, local_df, third, steps>>

NextEmp ==
    \/ CategorizeEmpTitles
    \/ FilterUncategorized
    \/ CodeTarget
    \/ ExportCodedEmpTarget

SpecEmp == InitEmp /\ [][NextEmp]_vars

\* C1: the target coding gives a row target 1 exactly when its loan_status is
\* 'Charged Off', 'Default' or 'Late (31-120 days)', and 0 for every other
\* loan_status, a missing one included; no row is added or lost by it.
C1_TargetCoding ==
    [][pc = "target" /\ pc' = "export" =>
        /\ Len(emp_df') = Len(emp_df)
        /\ \A i \in DOMAIN emp_df :
              /\ emp_df[i].loan_status \in
                    {Str("Charged Off"), Str("Default"), Str("Late (31-120 days)")}
                    => emp_df'[i].target = 1
              /\ emp_df[i].loan_status \in
                    {Str("Current"), Str("Fully Paid"), Str("Issued"),
                     Str("In Grace Period"), Str("Late (16-30 days)"), NaN}
                    => emp_df'[i].target = 0
              /\ emp_df'[i].target \in {0, 1}]_vars

\* C1's case: the coded dataframe holds a defaulted and a non-defaulted row.
C1_Witness ==
    /\ pc = "export"
    /\ \E i, j \in DOMAIN emp_df : emp_df[i].target = 1 /\ emp_df[j].target = 0

\* C7: every row left by the row filter had a job that is a key of
\* sub_major_dict, and carries the code the lookup gives for it.
C7_OnlyCategorizedRemain ==
    pc = "target" =>
        \A i \in DOMAIN emp_df :
            /\ IsStr(emp_df[i].job)
            /\ emp_df[i].job.s \in DOMAIN sub_major_dict
            /\ emp_df[i].sub_mjr_grp_isco_08_code = Str(sub_major_dict[emp_df[i].job.s])

(***************************************************************************)
(* The second notebook (README.md) from read_csv to the export of          *)
(* preproc_lc.csv, at the level of columns.                                *)
(*                                                                         *)
(* A dataframe is [rows, cols]: its number of rows and, for each column    *)
(* name, [nulls, dtype, levels]: how many of its cells are null, whether   *)
(* it is object-typed, and (for the job-title column) its distinct values. *)
(***************************************************************************)

NRows == 3

MaxDefects == 1

\* df.drop(columns = ['id', 'url', 'title'], inplace = True)
Unnecessary == {"id", "url", "title"}

date_cols == {"issue_d", "earliest_cr_line", "last_pymnt_d", "last_credit_pull_d",
              "next_pymnt_d"}

\* A slip that leaves issue_d, the last entry, out of the list.
droplist_NoIssueD ==
    {"total_rec_prncp", "last_pymnt_amnt", "last_pymnt_d", "total_rec_late_fee",
     "out_prncp", "recoveries", "total_rec_int", "last_credit_pull_d", "total_pymnt",
     "out_prncp_inv", "total_pymnt_inv", "last_fico_range_high",
     "collection_recovery_fee", "last_fico_range_low"}

droplist ==
    {"total_rec_prncp", "last_pymnt_amnt", "last_pymnt_d", "total_rec_late_fee",
     "out_prncp", "recoveries", "total_rec_int", "last_credit_pull_d", "total_pymnt",
     "out_prncp_inv", "total_pymnt_inv", "last_fico_range_high",
     "collection_recovery_fee", "last_fico_range_low", "issue_d"}

TitleCol == "sub_mjr_grp_isco_08_title"

\* The columns of coded_emp_target.csv that the notebook names.  'Unnamed: 0' is
\* the index column to_csv added; it is always there.
LoanCols ==
    Unnecessary \cup date_cols \cup droplist \cup
    {"int_rate", "revol_util", "loan_amnt", "installment", "sub_grade", "zip_code",
     "addr_state", TitleCol, "target"}

\* The columns read_csv gives dtype object: the str-valued ones.
ObjectCols ==
    date_cols \cup {"url", "title", "int_rate", "revol_util", "sub_grade", "zip_code",
                    "addr_state", TitleCol}

\* The third-party tables after preprocess_*: zip_code plus their data columns
\* (the CSV files are not part of the repository; these names stand for them).
ThirdPartyCols ==
    [t \in {"zips", "lat_lon", "unemp"} |->
        IF t = "zips" THEN {"estab", "emp", "payroll"}
        ELSE IF t = "lat_lon" THEN {"lat", "lon"}
        ELSE {"unemp_rate"}]

\* Job titles in the file: titles of sub_major_title_dict, and a code that has
\* no title (it stays a string of digits).
TitleLevels == {"Teaching professionals", "911"}

Column(nulls, dtype, levels) == [nulls |-> nulls, dtype |-> dtype, levels |-> levels]

Has(frame, c) == c \in DOMAIN frame.cols

\* DataFrame.drop(columns = S) on a frame that has them all.
DropCols(frame, S) ==
    [frame EXCEPT !.cols = [c \in (DOMAIN frame.cols) \ S |-> frame.cols[c]]]

\* df[c] = ...: the column is replaced, or added when new.
SetCol(frame, c, col) ==
    [frame EXCEPT !.cols =
        [x \in (DOMAIN frame.cols) \cup {c} |-> IF x = c THEN col ELSE frame.cols[x]]]

SetDtype(frame, c, dtype) ==
    SetCol(frame, c, [frame.cols[c] EXCEPT !.dtype = dtype])

\* The columns that may be defective in a file.  Ten of the leakage columns are
\* named by no statement but the drop of droplist, exactly like total_rec_prncp
\* and recoveries, which stand for them here.
DefectCandidates ==
    LoanCols \ {"last_pymnt_amnt", "total_rec_late_fee", "out_prncp", "total_rec_int",
                "total_pymnt", "out_prncp_inv", "total_pymnt_inv",
                "last_fico_range_high", "collection_recovery_fee",
                "last_fico_range_low"}

\* The sets of at most k such columns.
RECURSIVE DefectSets(_)
DefectSets(k) ==
    IF k = 0 THEN {{}}
    ELSE LET smaller == DefectSets(k - 1)
         IN  smaller \cup {S \cup {c} : S \in smaller, c \in DefectCandidates}

\* A file coded_emp_target.csv: every named column present and full, but for
\* the columns of D, which are missing (k = 0) or hold k nulls; the job-title
\* column holds the titles L.
InputFrame(D, k, L) ==
    [rows |-> NRows,
     cols |-> [c \in ((LoanCols \cup {"Unnamed: 0"}) \ {x \in D : k[x] = 0}) |->
                 Column(IF c \in D THEN k[c] ELSE 0,
                        IF c \in ObjectCols THEN "object" ELSE "num",
                        IF c = TitleCol THEN L ELSE {})]]

\* How many named columns of a file are missing or hold nulls.
Defects(frame) ==
    Cardinality({c \in LoanCols : ~Has(frame, c) \/ frame.cols[c].nulls > 0})

\* The statements run in this order; "done" and "error" end the run.
ProgramOrder ==
    <<"read_csv", "filter_titles", "drop_unnecessary", "percent", "credit_length",
      "sub_grade", "zip_strip", "third_party", "merge", "drop_null",
      "drop_zip_state", "dates", "one_hot", "rename", "drop_leakage", "to_csv",
      "done">>

\* A slip that reads the third-party CSVs right after the loan CSV, before any
\* column is reformatted.
AfterLoadFirst(p) ==
    LET order == <<"read_csv", "third_party", "filter_titles", "drop_unnecessary",
                   "percent", "credit_length", "sub_grade", "zip_strip", "merge",
                   "drop_null", "drop_zip_state", "dates", "one_hot", "rename",
                   "drop_leakage", "to_csv", "done">>
        i == CHOOSE j \in 1..Len(order) : order[j] = p
    IN  order[i + 1]

\* The statement that runs after statement p.
After(p) ==
    LET i == CHOOSE j \in 1..Len(ProgramOrder) : ProgramOrder[j] = p
    IN  ProgramOrder[i + 1]

Init ==
    /\ pc = "read_csv"
    /\ \E D \in DefectSets(MaxDefects) :
       \E k \in [D -> 0..NRows] :
       \E L \in (SUBSET TitleLevels) \ {{}} :
           disk = [coded_emp_target |-> InputFrame(D, k, L),
                   third_party |-> ThirdPartyCols,
                   preproc_lc |-> None]
    /\ df = None /\ local_df = None /\ third = None /\ steps = <<>>
    /\ arg = None /\ ret = None /\ emp_df = None

\* A notebook that went on to the export after a failed statement.
Raise_Recover ==
    /\ pc' = "to_csv"
    /\ local_df' = None
    /\ UNCHANGED <<df, disk, third, steps>>

\* An exception ends the run; the function's local df, if any, is gone.
Raise ==
    /\ pc' = "error"
    /\ local_df' = None
    /\ UNCHANGED <<df, disk, third, steps>>

Finish(step) ==
    /\ pc' = After(step)
    /\ steps' = Append(steps, step)

\* df = pd.read_csv('../data/exports/coded_emp_target.csv')
\* df.drop(columns = ['Unnamed: 0'], inplace = True)
ReadCsv ==
    /\ pc = "read_csv"
    /\ df' = DropCols(disk.coded_emp_target, {"Unnamed: 0"})
    /\ Finish("read_csv")
    /\ UNCHANGED <<arg, ret, emp_df, disk, local_df, third>>

\* df = df[df.sub_mjr_grp_isco_08_title.apply(lambda x: not x.isnumeric())]
\* A missing column, a NaN title (a float has no isnumeric) or a column of digit
\* strings only (read_csv reads it as integers, which have no isnumeric)
\* raises.  The rows whose title is numeric go: d of them, at least one per
\* numeric title, leaving at least one row per other title; a column with n
\* nulls keeps between n - d and n of them.
FilterNumericTitles ==
    /\ pc = "filter_titles"
    /\ UNCHANGED <<arg, ret, emp_df>>
    /\ IF \/ ~Has(df, TitleCol)
          \/ df.cols[TitleCol].nulls > 0
          \/ \A t \in df.cols[TitleCol].levels : IsNumeric(t)
       THEN Raise
       ELSE LET L    == df.cols[TitleCol].levels
                gone == {t \in L : IsNumeric(t)}
                kept == L \ gone
                NC   == {c \in DOMAIN df.cols : df.cols[c].nulls > 0}
            IN  \E d \in Cardinality(gone)..(df.rows - Cardinality(kept)) :
                \E n \in [NC -> 0..df.rows] :
                    /\ gone = {} => d = 0
                    /\ \A c \in NC :
                          /\ n[c] <= df.cols[c].nulls
                          /\ n[c] <= df.rows - d
                          /\ n[c] >= df.cols[c].nulls - d
                    /\ df' = [rows |-> df.rows - d,
                              cols |-> [c \in DOMAIN df.cols |->
                                  IF c = TitleCol THEN Column(0, "object", kept)
                                  ELSE IF c \in NC
                                  THEN [df.cols[c] EXCEPT !.nulls = n[c]]
                                  ELSE df.cols[c]]]
                    /\ Finish("filter_titles")
                    /\ UNCHANGED <<disk, local_df, third>>

\* df = preprocess_LC_df(df): df.drop(columns = ['id', 'url', 'title'], inplace = True)
\* The function's df is the caller's object: the drop shows in both.
DropUnnecessary ==
    /\ pc = "drop_unnecessary"
    /\ UNCHANGED <<arg, ret, emp_df>>
    /\ IF Unnecessary \subseteq DOMAIN df.cols
       THEN /\ df' = DropCols(df, Unnecessary)
            /\ local_df' = df'
            /\ Finish("drop_unnecessary")
            /\ UNCHANGED <<disk, third>>
       ELSE Raise

\* df['int_rate'] = df['int_rate'].dropna().apply(p2f); pd.to_numeric; the same
\* for revol_util.  Nulls stay null; the columns become numeric.
ParsePercents ==
    /\ pc = "percent"
    /\ UNCHANGED <<arg, ret, emp_df>>
    /\ IF ~Has(local_df, "int_rate") THEN Raise
       ELSE IF ~Has(local_df, "revol_util")
       THEN /\ df' = SetDtype(local_df, "int_rate", "num")
            /\ pc' = "error"
            /\ local_df' = None
            /\ UNCHANGED <<disk, third, steps>>
       ELSE /\ local_df' = SetDtype(SetDtype(local_df, "int_rate", "num"),
                                    "revol_util", "num")
            /\ df' = local_df'
            /\ Finish("percent")
            /\ UNCHANGED <<disk, third>>

\* df['credit_length'] = df['loan_amnt'] / df['installment']: null where either
\* operand is.
CreditLength ==
    /\ pc = "credit_length"
    /\ UNCHANGED <<arg, ret, emp_df>>
    /\ IF {"loan_amnt", "installment"} \subseteq DOMAIN local_df.cols
       THEN LET a == local_df.cols["loan_amnt"].nulls
                b == local_df.cols["installment"].nulls
                lo == IF a > b THEN a ELSE b
                hi == IF a + b < local_df.rows THEN a + b ELSE local_df.rows
            IN  \E n \in lo..hi :
                    /\ local_df' = SetCol(local_df, "credit_length", Column(n, "num", {}))
                    /\ df' = local_df'
                    /\ Finish("credit_length")
                    /\ UNCHANGED <<disk, third>>
       ELSE Raise

\* df = letterSubGradesToNumeric(df): the str grades become numbers.
SubGradeToNumeric ==
    /\ pc = "sub_grade"
    /\ UNCHANGED <<arg, ret, emp_df>>
    /\ IF Has(local_df, "sub_grade")
       THEN /\ local_df' = SetDtype(local_df, "sub_grade", "num")
            /\ df' = local_df'
            /\ Finish("sub_grade")
            /\ UNCHANGED <<disk, third>>
       ELSE Raise

\* df['zip_code'] = df['zip_code'].dropna().apply(lambda x: x.strip('xx'))
StripZipCode ==
    /\ pc = "zip_strip"
    /\ UNCHANGED <<arg, ret, emp_df>>
    /\ IF Has(local_df, "zip_code")
       THEN /\ local_df' = local_df
            /\ df' = df
            /\ Finish("zip_strip")
            /\ UNCHANGED <<disk, third>>
       ELSE Raise

\* zips, lat_lon, unemp = preprocess_third_party_src()
LoadThirdParty ==
    /\ pc = "third_party"
    /\ third' = disk.third_party
    /\ Finish("third_party")
    /\ UNCHANGED <<arg, ret, emp_df, disk, df, local_df>>

\* df = pd.merge(df, zips / lat_lon / unemp, on = 'zip_code', how = 'left'): the
\* columns of each table are added, null in the rows whose zip_code is null and
\* in the u[t] rows whose zip_code the table lacks.  From here on the function's
\* df is a new object.
\* Tables that miss rows count as defects of the input files.
MergeThirdParty ==
    /\ pc = "merge"
    /\ LET nz == local_df.cols["zip_code"].nulls
           T  == DOMAIN third
       IN  \E u \in [T -> 0..(local_df.rows - nz)] :
               /\ Cardinality({t \in T : u[t] > 0}) + Defects(disk.coded_emp_target)
                      <= MaxDefects
               /\ local_df' =
                    [local_df EXCEPT !.cols =
                        [c \in (DOMAIN local_df.cols) \cup UNION {third[t] : t \in T} |->
                            IF c \in DOMAIN local_df.cols THEN local_df.cols[c]
                            ELSE LET t == CHOOSE x \in T : c \in third[x]
                                 IN  Column(nz + u[t], "num", {})]]
    /\ Finish("merge")
    /\ UNCHANGED <<arg, ret, emp_df, disk, df, third>>

NullThresholdTenths == 3

\* missing_fractions[c] > 0.3, with missing_fractions = df.isnull().mean()
\* (NaN, never above 0.3, for a frame without rows).
HighNull(frame, c) ==
    frame.rows > 0 /\ 10 * frame.cols[c].nulls > NullThresholdTenths * frame.rows

\* drop_list = sorted(list(missing_fractions[missing_fractions > 0.3].index))
\* df.drop(labels = drop_list, axis = 1, inplace = True)
DropHighNull ==
    /\ pc = "drop_null"
    /\ local_df' = DropCols(local_df, {c \in DOMAIN local_df.cols : HighNull(local_df, c)})
    /\ Finish("drop_null")
    /\ UNCHANGED <<arg, ret, emp_df, disk, df, third>>

\* df.drop(columns = ['zip_code', 'addr_state'], inplace = True)
DropZipState ==
    /\ pc = "drop_zip_state"
    /\ UNCHANGED <<arg, ret, emp_df>>
    /\ IF {"zip_code", "addr_state"} \subseteq DOMAIN local_df.cols
       THEN /\ local_df' = DropCols(local_df, {"zip_code", "addr_state"})
            /\ Finish("drop_zip_state")
            /\ UNCHANGED <<disk, df, third>>
       ELSE Raise

\* for col in date_cols: if col in df.columns.tolist(): Timestamp, minus
\* start_date, .dt.days; return df (the caller assigns it to its df).
ConvertDates ==
    /\ pc = "dates"
    /\ df' = [local_df EXCEPT !.cols =
                [c \in DOMAIN local_df.cols |->
                    IF c \in date_cols THEN [local_df.cols[c] EXCEPT !.dtype = "num"]
                    ELSE local_df.cols[c]]]
    /\ local_df' = None
    /\ Finish("dates")
    /\ UNCHANGED <<arg, ret, emp_df, disk, third>>

\* df, cols = one_hot_encoder(df): every object column gives way to a column
\* per level and its _nan column; get_dummies raises on a frame without columns.
OneHotEncode ==
    /\ pc = "one_hot"
    /\ UNCHANGED <<arg, ret, emp_df>>
    /\ IF DOMAIN df.cols = {}
       THEN Raise
       ELSE LET obj == {c \in DOMAIN df.cols : df.cols[c].dtype = "object"}
                new == UNION {{c \o "_" \o v : v \in df.cols[c].levels} \cup {c \o "_nan"} :
                                 c \in obj}
            IN  /\ df' = [df EXCEPT !.cols =
                             [c \in ((DOMAIN df.cols) \ obj) \cup new |->
                                 IF c \in (DOMAIN df.cols) \ obj THEN df.cols[c]
                                 ELSE Column(0, "num", {})]]
                /\ Finish("one_hot")
                /\ UNCHANGED <<disk, local_df, third>>

\* df.columns = [regex.sub("_", col) if any(...) else col for col in df.columns.values]
RenameDfColumns ==
    /\ pc = "rename"
    /\ LET names == {RenameColumn(c) : c \in DOMAIN df.cols}
       IN  df' = [df EXCEPT !.cols =
                    [n \in names |->
                        df.cols[CHOOSE c \in DOMAIN df.cols : RenameColumn(c) = n]]]
    /\ Finish("rename")
    /\ UNCHANGED <<arg, ret, emp_df, disk, local_df, third>>

\* df.drop(columns = droplist, inplace = True)
DropLeakage ==
    /\ pc = "drop_leakage"
    /\ UNCHANGED <<arg, ret, emp_df>>
    /\ IF droplist \subseteq DOMAIN df.cols
       THEN /\ df' = DropCols(df, droplist)
            /\ Finish("drop_leakage")
            /\ UNCHANGED <<disk, local_df, third>>
       ELSE Raise

\* df.to_csv('../data/exports/preproc_lc.csv')
ToCsv ==
    /\ pc = "to_csv"
    /\ disk' = [disk EXCEPT !.preproc_lc = df]
    /\ Finish("to_csv")
    /\ UNCHANGED <<arg, ret, emp_df, df, local_df, third>>

Next ==
    \/ ReadCsv
    \/ FilterNumericTitles
    \/ DropUnnecessary
    \/ ParsePercents
    \/ CreditLength
    \/ SubGradeToNumeric
    \/ StripZipCode
    \/ LoadThirdParty
    \/ MergeThirdParty
    \/ DropHighNull
    \/ DropZipState
    \/ ConvertDates
    \/ OneHotEncode
    \/ RenameDfColumns
    \/ DropLeakage
    \/ ToCsv

Spec == Init /\ [][Next]_vars

\* C3: the columns the null-rate step drops are exactly those whose fraction
\* of null values is more than 70%; a column with 70% or less is kept.
C3_DropsAboveSeventy ==
    [][pc = "drop_null" /\ pc' = "drop_zip_state" =>
        DOMAIN local_df'.cols =
            {c \in DOMAIN local_df.cols :
                ~(local_df.rows > 0 /\ 10 * local_df.cols[c].nulls > 7 * local_df.rows)}]_vars

\* The step of the spec's list that a finished statement belongs to.
Kind(step) ==
    IF step \in {"read_csv", "third_party"} THEN "load"
    ELSE IF step = "merge" THEN "join"
    ELSE IF step \in {"percent", "sub_grade", "zip_strip", "dates"} THEN "reformat"
    ELSE IF step = "one_hot" THEN "one_hot"
    ELSE IF step = "drop_null" THEN "drop_null"
    ELSE IF step = "to_csv" THEN "write"
    ELSE "other"

\* The steps of the spec's list among the finished statements, in order, a run
\* of statements of one step counted once.
RECURSIVE StepsRun(_)
StepsRun(log) ==
    IF log = <<>> THEN <<>>
    ELSE LET rest == StepsRun(SubSeq(log, 1, Len(log) - 1))
             k    == Kind(log[Len(log)])
         IN  IF k = "other" \/ (rest # <<>> /\ rest[Len(rest)] = k) THEN rest
             ELSE Append(rest, k)

IsPrefix(a, b) == Len(a) <= Len(b) /\ a = SubSeq(b, 1, Len(a))

\* C4 as stated: the steps run once each, in the order load, join, reformat,
\* one-hot encode, drop high-null-rate columns, write.
C4_SpecOrder ==
    IsPrefix(StepsRun(steps),
             <<"load", "join", "reformat", "one_hot", "drop_null", "write">>)

\* C4, amended: the run is linear and its steps happen in the order: load the
\* loan CSV, reformat the percent, sub_grade and zip_code columns, load the
\* third-party CSVs, join on zip_code, drop the high-null-rate columns, reformat
\* the date columns, one-hot encode, write the CSV; no statement runs twice, and
\* a run that reaches the end has done them all.
C4_CodeOrder ==
    /\ IsPrefix(StepsRun(steps),
                <<"load", "reformat", "load", "join", "drop_null", "reformat",
                  "one_hot", "write">>)
    /\ \A i, j \in DOMAIN steps : steps[i] = steps[j] => i = j
    /\ pc = "done" => Len(StepsRun(steps)) = 8

\* C4's case: a run went through every step and wrote the CSV.
C4_Witness ==
    /\ pc = "done"
    /\ steps[Len(steps)] = "to_csv"
    /\ "target" \in DOMAIN disk.preproc_lc.cols

\* The 15 columns indicative of defaulted loans, as the claim lists them.
LeakageColumns ==
    {"total_rec_prncp", "last_pymnt_amnt", "last_pymnt_d", "total_rec_late_fee",
     "out_prncp", "recoveries", "total_rec_int", "last_credit_pull_d", "total_pymnt",
     "out_prncp_inv", "total_pymnt_inv", "last_fico_range_high",
     "collection_recovery_fee", "last_fico_range_low", "issue_d"}

\* C5: the drop of droplist removes the 15 leakage columns and leaves every
\* other column in place; from then on none of the 15 is a column of df, nor of
\* the file preproc_lc.csv, which holds df as it is then.
C5_LeakageDropped ==
    [][/\ pc = "drop_leakage" /\ pc' = "to_csv" =>
            /\ DOMAIN df'.cols = (DOMAIN df.cols) \ LeakageColumns
            /\ \A c \in DOMAIN df'.cols : df'.cols[c] = df.cols[c]
       /\ pc' \in {"to_csv", "done"} => (DOMAIN df'.cols) \cap LeakageColumns = {}
       /\ pc' = "done" =>
            /\ disk'.preproc_lc = df'
            /\ (DOMAIN disk'.preproc_lc.cols) \cap LeakageColumns = {}]_vars

\* C5's case: the 15 columns were dropped from a frame that kept other columns
\* (target, the merged and the indicator columns) and the file was written.
C5_Witness ==
    /\ pc = "done"
    /\ "drop_leakage" \in Range(steps)
    /\ {"target", "lat", "sub_mjr_grp_isco_08_title_nan"}
           \subseteq DOMAIN disk.preproc_lc.cols

(***************************************************************************)
(* Order and injectivity of the sub_grade score (SpecGrade)                *)
(***************************************************************************)

\* The better of two sub_grades: earlier letter, or same letter and smaller digit.
Better(g, h) ==
    \/ Ord(Ch(g, 1)) < Ord(Ch(h, 1))
    \/ Ch(g, 1) = Ch(h, 1) /\ IntOfDigit(Ch(g, 2)) < IntOfDigit(Ch(h, 2))

\* C13: of two distinct sub_grades (a letter A..G and a digit) in the column,
\* the better one gets the strictly larger score, so no two share a score.
C13_AscendingOneToOne ==
    pc = "return" =>
        \A i, j \in DOMAIN arg :
            (IsStr(arg[i]) /\ IsStr(arg[j]) /\ Better(arg[i].s, arg[j].s))
                => (ret[i].kind = "int" /\ ret[j].kind = "int" /\ ret[i].n > ret[j].n)

(***************************************************************************)
(* Uniqueness of the renamed column names (SpecRename)                     *)
(***************************************************************************)

\* C17: two columns with distinct names before the renaming have distinct
\* names after it.
C17_NamesStayUnique ==
    pc = "return" =>
        \A i, j \in DOMAIN arg : arg[i] # arg[j] => ret[i] # ret[j]

(***************************************************************************)
(* p2f and the int_rate / revol_util statements of preprocess_LC_df        *)
(***************************************************************************)

MaxPctLen == 3

MaxPctRows == 2

RECURSIVE GCD(_, _)
GCD(a, b) == IF b = 0 THEN a ELSE GCD(b, a % b)

Abs(n) == IF n < 0 THEN -n ELSE n

\* A float cell, held as the fraction num/den in lowest terms (den > 0); the
\* rounding of the binary representation is left out.
Flt(num, den) ==
    LET g == GCD(Abs(num), den)
    IN  [kind |-> "float", s |-> "", n |-> num \div g, d |-> den \div g]

RECURSIVE Pow10(_)
Pow10(k) == IF k = 0 THEN 1 ELSE 10 * Pow10(k - 1)

\* int of a string of digits ("" counts as 0)
RECURSIVE IntOfDigits(_)
IntOfDigits(s) ==
    IF s = "" THEN 0
    ELSE 10 * IntOfDigits(SubSeq(s, 1, Len(s) - 1)) + IntOfDigit(Ch(s, Len(s)))

\* str.strip(chars): leading and trailing characters of the set are removed.
RECURSIVE LStrip(_, _)
LStrip(s, chars) ==
    IF s # "" /\ Ch(s, 1) \in chars THEN LStrip(SubSeq(s, 2, Len(s)), chars) ELSE s

RECURSIVE RStrip(_, _)
RStrip(s, chars) ==
    IF s # "" /\ Ch(s, Len(s)) \in chars
    THEN RStrip(SubSeq(s, 1, Len(s) - 1), chars) ELSE s

Strip(s, chars) == RStrip(LStrip(s, chars), chars)

ValueError == [kind |-> "ValueError", s |-> "", n |-> 0]

AttributeError == [kind |-> "AttributeError", s |-> "", n |-> 0]

IsError(c) == c.kind \in {"ValueError", "AttributeError"}

\* Position of the first '.' of s, or 0.
RECURSIVE DotAt(_, _)
DotAt(s, i) ==
    IF i > Len(s) THEN 0 ELSE IF Ch(s, i) = "." THEN i ELSE DotAt(s, i + 1)

\* float(s) for a string of digits, '.', '-', '+' and spaces: surrounding
\* white space is ignored, then an optional sign, then digits with at most one
\* '.', at least one digit; anything else is a ValueError.
float(s) ==
    LET t    == Strip(s, {" "})
        neg  == t # "" /\ Ch(t, 1) = "-"
        sgnd == t # "" /\ Ch(t, 1) \in {"-", "+"}
        u    == IF sgnd THEN SubSeq(t, 2, Len(t)) ELSE t
        dot  == DotAt(u, 1)
        ip   == IF dot = 0 THEN u ELSE SubSeq(u, 1, dot - 1)
        fp   == IF dot = 0 THEN "" ELSE SubSeq(u, dot + 1, Len(u))
        ok   == /\ \A i \in 1..Len(ip) : IsDigit(Ch(ip, i))
                /\ \A i \in 1..Len(fp) : IsDigit(Ch(fp, i))
                /\ Len(ip) + Len(fp) > 0
        mag  == IntOfDigits(ip) * Pow10(Len(fp)) + IntOfDigits(fp)
    IN  IF ok THEN Flt(IF neg THEN -mag ELSE mag, Pow10(Len(fp))) ELSE ValueError

\* A float divided by an integer.
FltDiv(x, k) == Flt(x.n, x.d * k)

p2f_NoDivision(x) ==
    IF ~IsStr(x) THEN AttributeError
    ELSE float(Strip(x.s, {"%"}))

\* return float(x.strip('%'))/100
p2f(x) ==
    IF ~IsStr(x) THEN AttributeError
    ELSE LET f == float(Strip(x.s, {"%"}))
         IN  IF IsError(f) THEN f ELSE FltDiv(f, 100)

\* df[c] = df[c].dropna().apply(p2f); df[c] = pd.to_numeric(df[c]):
\* p2f runs on the non-null cells in row order and the first exception ends the
\* statement; the assignment aligns on the index, so the rows dropna() left
\* out get NaN; to_numeric leaves floats and NaN as they are.
PercentColumn(col) ==
    LET out  == [i \in DOMAIN col |-> IF IsNull(col[i]) THEN NaN ELSE p2f(col[i])]
        errs == {i \in DOMAIN col : IsError(out[i])}
    IN  IF errs = {} THEN [raised |-> NaN, col |-> out]
        ELSE [raised |-> out[CHOOSE i \in errs : \A j \in errs : i <= j], col |-> col]

PctAlphabet == {"1", "5", ".", "%", "-", " "}

\* Cells of an int_rate / revol_util column: strings, missing values, and a
\* number (a column a previous run already converted).
PctCells == {Str(x) : x \in StrsUpTo(PctAlphabet, MaxPctLen)} \cup {NaN, Flt(1, 2)}

InitPercent ==
    /\ pc = "call"
    /\ \E c \in PctCells :
       \E rest \in SeqsUpTo({NaN, Str("50%")}, MaxPctRows - 1) :
           arg = <<c>> \o rest
    /\ ret = None
    /\ emp_df = None /\ disk = None /\ df = None /\ local_df = None
    /\ third = None /\ steps = <<>>

CallPercentColumn ==
    /\ pc = "call"
    /\ LET r == PercentColumn(arg)
       IN  IF IsError(r.raised)
           THEN pc' = "error" /\ ret' = <<r.raised>>
           ELSE pc' = "return" /\ ret' = r.col
    /\ UNCHANGED <<arg, emp_df, disk, df, local_df, third, steps>>

NextPercent == CallPercentColumn

SpecPercent == InitPercent /\ [][NextPercent]_vars

\* The numerals a percent string is made of: an optional '-', digits before
\* and after an optional '.', at least one digit.
PctDigits == StrsUpTo({"1", "5"}, MaxPctLen)

\* C12: a cell '<number>%' becomes number/100 (the number read as sign, whole
\* part ip and decimals fp), and a null cell stays null.
C12_PercentToFraction ==
    pc = "return" =>
        \A i \in DOMAIN arg :
            /\ IsNull(arg[i]) => ret[i] = NaN
            /\ \A sgn \in {"", "-"} : \A ip, fp \in PctDigits : \A dot \in {"", "."} :
                  ( /\ Len(ip) + Len(fp) > 0
                    /\ fp # "" => dot = "."
                    /\ arg[i] = Str(sgn \o ip \o dot \o fp \o "%") )
                  => LET mag == IntOfDigits(ip) * Pow10(Len(fp)) + IntOfDigits(fp)
                         num == IF sgn = "-" THEN -mag ELSE mag
                     IN  /\ ret[i].kind = "float"
                         /\ ret[i].n * Pow10(Len(fp)) * 100 = num * ret[i].d

\* C12's case: a column with the percent string '.5%' and a null went through
\* the statements: 0.005 and NaN.
C12_Witness ==
    /\ pc = "return"
    /\ arg = <<Str(".5%"), NaN>>
    /\ ret = <<Flt(1, 200), NaN>>

(***************************************************************************)
(* The date columns of preprocess_LC_df, row by row                        *)
(***************************************************************************)

MaxDateRows == 1

MonthNames == <<"Jan", "Feb", "Mar", "Apr", "May", "Jun",
                "Jul", "Aug", "Sep", "Oct", "Nov", "Dec">>

\* A calendar date.
Date(y, mo, d) == [y |-> y, m |-> mo, d |-> d]

\* pd.Timestamp(x) for a string 'Mon-YYYY' of the loan data: the first day of
\* that month.
Timestamp(x) ==
    LET mo == CHOOSE i \in 1..12 : MonthNames[i] = SubSeq(x, 1, 3)
    IN  Date(IntOfDigits(SubSeq(x, 5, 8)), mo, 1)

\* Days from 1970-01-01 to a date of the proleptic Gregorian calendar, the
\* value a Timestamp holds (in days).
DaysFromEpoch(t) ==
    LET y   == IF t.m <= 2 THEN t.y - 1 ELSE t.y
        era == y \div 400
        yoe == y - era * 400
        mp  == IF t.m > 2 THEN t.m - 3 ELSE t.m + 9
        doy == (153 * mp + 2) \div 5 + t.d - 1
        doe == yoe * 365 + yoe \div 4 - yoe \div 100 + doy
    IN  era * 146097 + doe - 719468

\* start_date = pd.Timestamp('2018-08-01')
start_date == Date(2018, 8, 1)

TimedeltaDays_Reversed(t) == DaysFromEpoch(start_date) - DaysFromEpoch(t)

\* (df[col] - start_date).dt.days for one Timestamp
TimedeltaDays(t) == DaysFromEpoch(t) - DaysFromEpoch(start_date)

\* One date column through both loops: pd.Timestamp(NaN) is NaT, NaT minus a
\* date is NaT, and its .dt.days is NaN.
ConvertDateColumn(col) ==
    [i \in DOMAIN col |->
        IF IsStr(col[i]) THEN Num(TimedeltaDays(Timestamp(col[i].s))) ELSE NaN]

\* for col in date_cols: if col in df.columns.tolist(): ... (both loops)
ConvertDateColumns(frame) ==
    [c \in DOMAIN frame |->
        IF c \in date_cols THEN ConvertDateColumn(frame[c]) ELSE frame[c]]

DateStrings == {MonthNames[i] \o "-" \o y : i \in 1..12, y \in {"2016", "2018"}}

DateCells == {Str(x) : x \in DateStrings} \cup {NaN}

\* Frames at the date loops: loan_amnt, and the date columns the null-rate
\* drop left; issue_d holds any dates, the other date columns a fixed date or
\* a missing value.
InitDates ==
    /\ pc = "call"
    /\ \E P \in SUBSET date_cols :
       \E k \in 1..MaxDateRows :
       \E c1 \in [1..k -> DateCells] :
       \E c2 \in [1..k -> {Str("Dec-2015"), NaN}] :
           arg = [c \in P \cup {"loan_amnt"} |->
                     IF c = "issue_d" THEN c1
                     ELSE IF c = "loan_amnt" THEN [i \in 1..k |-> Num(1000)]
                     ELSE c2]
    /\ ret = None
    /\ emp_df = None /\ disk = None /\ df = None /\ local_df = None
    /\ third = None /\ steps = <<>>

CallConvertDateColumns ==
    /\ pc = "call"
    /\ ret' = ConvertDateColumns(arg)
    /\ pc' = "return"
    /\ UNCHANGED <<arg, emp_df, disk, df, local_df, third, steps>>

NextDates == CallConvertDateColumns

SpecDates == InitDates /\ [][NextDates]_vars

\* Length of a month of a year of the Gregorian calendar.
DaysInMonth(y, mo) ==
    IF mo = 2
    THEN (IF (y % 4 = 0 /\ y % 100 # 0) \/ y % 400 = 0 THEN 29 ELSE 28)
    ELSE IF mo \in {4, 6, 9, 11} THEN 30 ELSE 31

\* Months counted from year 0.
MonthIndex(y, mo) == 12 * y + (mo - 1)

\* Days in the months a..b-1 (month indices).
RECURSIVE DaysOfMonths(_, _)
DaysOfMonths(a, b) ==
    IF a >= b THEN 0
    ELSE DaysInMonth(a \div 12, (a % 12) + 1) + DaysOfMonths(a + 1, b)

\* Whole days from 2018-08-01 to the first day of a month: counted month by
\* month, negative before August 2018.
DaysFromStart(y, mo) ==
    LET s0 == MonthIndex(2018, 8)
        t0 == MonthIndex(y, mo)
    IN  IF t0 >= s0 THEN DaysOfMonths(s0, t0) ELSE -DaysOfMonths(t0, s0)

\* C11: every date column still present holds, for each date, the whole
\* number of days from 2018-08-01 to it (negative before that day); a date
\* column that is absent stays absent, and the other columns are untouched.
C11_DaysFromStartDate ==
    pc = "return" =>
        /\ DOMAIN ret = DOMAIN arg
        /\ \A c \in DOMAIN arg :
              IF c \in date_cols
              THEN \A i \in DOMAIN arg[c] :
                      \A mo \in 1..12 : \A y \in {"2015", "2016", "2018"} :
                          arg[c][i] = Str(MonthNames[mo] \o "-" \o y)
                              => ret[c][i] = Num(DaysFromStart(IntOfDigits(y), mo))
              ELSE ret[c] = arg[c]

\* C11's case: issue_d held a date before the start date, next_pymnt_d was
\* no longer present, and the loops ran.
C11_Witness ==
    /\ pc = "return"
    /\ "issue_d" \in DOMAIN arg /\ "next_pymnt_d" \notin DOMAIN arg
    /\ arg["issue_d"][1] = Str("Feb-2016")
    /\ ret["issue_d"][1].n < 0
    /\ "next_pymnt_d" \notin DOMAIN ret

(***************************************************************************)
(* Failed drops (Spec)                                                     *)
(***************************************************************************)

\* The columns a drop statement names, and whether one of them is absent from
\* the frame the statement works on.
DropFails ==
    \/ pc = "drop_unnecessary" /\ ~(Unnecessary \subseteq DOMAIN df.cols)
    \/ pc = "drop_zip_state" /\ ~({"zip_code", "addr_state"} \subseteq DOMAIN local_df.cols)
    \/ pc = "drop_leakage" /\ ~(droplist \subseteq DOMAIN df.cols)

\* C14: a drop that names an absent column raises: the run ends in error, the
\* dataframe, the files and the list of finished statements stay as they
\* were, preproc_lc.csv has not been written, and nothing runs after an error.
C14_NoRecovery ==
    [][ /\ pc # "error"
        /\ DropFails =>
              /\ pc' = "error"
              /\ df' = df /\ disk' = disk /\ steps' = steps
              /\ "to_csv" \notin Range(steps) ]_vars

\* C14's case: the null-rate step removed zip_code or addr_state, and the drop
\* of these two columns ended the run.
C14_Witness ==
    /\ pc = "error"
    /\ Len(steps) > 0 /\ steps[Len(steps)] = "drop_null"
    /\ \E c \in {"zip_code", "addr_state"} :
          /\ c \in DOMAIN df.cols
          /\ 10 * df.cols[c].nulls > NullThresholdTenths * df.rows

(***************************************************************************)
(* The zip-code keys and the three merges of preprocess_LC_df, row by row  *)
(*                                                                         *)
(* A frame is a sequence of rows, a row a function from column names to    *)
(* cells.  Each third-party table is held with its zip_code and one of its *)
(* value columns (estab, lat, unemp_rate).                                 *)
(***************************************************************************)

MaxLoanRows == 2

MaxTableRows == 2

\* str(n) for a natural number
RECURSIVE IntToStr(_)
IntToStr(n) ==
    IF n < 10 THEN Ch("0123456789", n + 1)
    ELSE IntToStr(n \div 10) \o Ch("0123456789", (n % 10) + 1)

\* str.zfill(width)
RECURSIVE zfill(_, _)
zfill(x, width) == IF Len(x) >= width THEN x ELSE zfill("0" \o x, width)

\* zips['zip_code'] = zips.zip_code.apply(lambda x: str(int(x)).zfill(3))
preprocess_estabs(file) ==
    [i \in DOMAIN file |->
        [zip_code |-> Str(zfill(IntToStr(file[i]), 3)), val |-> Num(i)]]

\* lat_lon['zip_code'] = lat_lon['zip_code'].apply(str)
preprocess_lat_lons(file) ==
    [i \in DOMAIN file |-> [zip_code |-> Str(IntToStr(file[i])), val |-> Num(i)]]

\* unemp['zip_code'] = unemp.zip_code.apply(lambda x: str(int(x)).zfill(3))
preprocess_unemp(file) ==
    [i \in DOMAIN file |->
        [zip_code |-> Str(zfill(IntToStr(file[i]), 3)), val |-> Num(i)]]

\* return zips, lat_lon, unemp
preprocess_third_party_src(files) ==
    [zips    |-> preprocess_estabs(files.zips),
     lat_lon |-> preprocess_lat_lons(files.lat_lon),
     unemp   |-> preprocess_unemp(files.unemp)]

\* df['zip_code'] = df['zip_code'].dropna().apply(lambda x: x.strip('xx'))
StripZip(frame) ==
    [i \in DOMAIN frame |->
        [frame[i] EXCEPT !["zip_code"] = IF IsStr(@) THEN Str(Strip(@.s, {"x"})) ELSE @]]

\* A row with one more column.
WithColumn(row, c, cell) ==
    [x \in (DOMAIN row) \cup {c} |-> IF x = c THEN cell ELSE row[x]]

MergeRow_Inner(row, table, c) ==
    LET ms == SelectSeq(table, LAMBDA r : r.zip_code = row["zip_code"])
    IN  [j \in 1..Len(ms) |-> WithColumn(row, c, ms[j].val)]

\* The rows a left row gives in a left merge: one per row of the table with
\* its key, in the table's order, or one with a null when there is none (a
\* null key matches no string key).
MergeRow(row, table, c) ==
    LET ms == SelectSeq(table, LAMBDA r : r.zip_code = row["zip_code"])
    IN  IF ms = <<>> THEN <<WithColumn(row, c, NaN)>>
        ELSE [j \in 1..Len(ms) |-> WithColumn(row, c, ms[j].val)]

\* pd.merge(left, table, on = 'zip_code', how = 'left'): the left rows in
\* their order.
RECURSIVE merge(_, _, _)
merge(left, table, c) ==
    IF left = <<>> THEN <<>>
    ELSE MergeRow(Head(left), table, c) \o merge(Tail(left), table, c)

\* 3-digit zip prefixes as read_csv reads them from the third-party files:
\* integers.
ZipNumbers == {11, 601}

LoanZips == {Str("011xx"), Str("601xx"), NaN}

InitMerge ==
    /\ pc = "zip_strip"
    /\ \E k \in 1..MaxLoanRows :
       \E z \in [1..k -> LoanZips] :
           df = [i \in 1..k |->
                   [c \in {"zip_code", "loan_amnt"} |->
                       IF c = "zip_code" THEN z[i] ELSE Num(1000 * i)]]
    /\ \E fz, fl, fu \in SeqsUpTo(ZipNumbers, MaxTableRows) :
           disk = [zips |-> fz, lat_lon |-> fl, unemp |-> fu]
    /\ third = None /\ local_df = None
    /\ arg = None /\ ret = None /\ emp_df = None /\ steps = <<>>

\* The strip is in place: it shows in the caller's df.
MergeStripZip ==
    /\ pc = "zip_strip"
    /\ df' = StripZip(df)
    /\ pc' = "third_party"
    /\ UNCHANGED <<arg, ret, emp_df, disk, local_df, third, steps>>

MergeLoadThirdParty ==
    /\ pc = "third_party"
    /\ third' = preprocess_third_party_src(disk)
    /\ pc' = "merge"
    /\ UNCHANGED <<arg, ret, emp_df, disk, df, local_df, steps>>

\* The three merges; the function's df is a new frame, the caller's stays.
MergeThree ==
    /\ pc = "merge"
    /\ local_df' = merge(merge(merge(df, third.zips, "estab"),
                               third.lat_lon, "lat"),
                         third.unemp, "unemp_rate")
    /\ pc' = "return"
    /\ UNCHANGED <<arg, ret, emp_df, disk, df, third, steps>>

NextMerge ==
    \/ MergeStripZip
    \/ MergeLoadThirdParty
    \/ MergeThree

SpecMerge == InitMerge /\ [][NextMerge]_vars

IsThreeDigits(x) == Len(x) = 3 /\ \A i \in 1..3 : IsDigit(Ch(x, i))

\* The value column a table gives the loan dataframe.
MergedColumn == [zips |-> "estab", lat_lon |-> "lat", unemp |-> "unemp_rate"]

\* C15: the zip_code of every row of the three preprocessed tables is a
\* string of three digits, and a loan row whose stripped zip_code is the
\* padded prefix of a row of a table's file gets that table's value.
C15_SameKeyFormat ==
    /\ pc \in {"merge", "return"} =>
          \A t \in DOMAIN third : \A i \in DOMAIN third[t] :
              IsThreeDigits(third[t][i].zip_code.s)
    /\ pc = "return" =>
          \A t \in DOMAIN third : \A j \in DOMAIN local_df :
              (\E i \in DOMAIN disk[t] :
                  local_df[j]["zip_code"] = Str(zfill(IntToStr(disk[t][i]), 3)))
                  => ~IsNull(local_df[j][MergedColumn[t]])

LoanPart(row) == [c \in {"zip_code", "loan_amnt"} |-> row[c]]

UniqueKeys(table) ==
    \A i, j \in DOMAIN table : table[i].zip_code = table[j].zip_code => i = j

\* C16: after the three merges every loan row is still there with its loan
\* columns as they were, a row whose zip_code is null or in no row of a table
\* has nulls in that table's column, and with at most one row per zip_code in
\* each table the rows are the loan rows, one for one.
C16_LeftMergeKeepsRows ==
    pc = "return" =>
        /\ \A i \in DOMAIN df : \E j \in DOMAIN local_df : LoanPart(local_df[j]) = df[i]
        /\ \A j \in DOMAIN local_df : \E i \in DOMAIN df : LoanPart(local_df[j]) = df[i]
        /\ \A t \in DOMAIN third : \A j \in DOMAIN local_df :
              (\A i \in DOMAIN third[t] : third[t][i].zip_code # local_df[j]["zip_code"])
                  => IsNull(local_df[j][MergedColumn[t]])
        /\ (\A t \in DOMAIN third : UniqueKeys(third[t]))
              => /\ Len(local_df) = Len(df)
                 /\ \A i \in DOMAIN df : LoanPart(local_df[i]) = df[i]

\* C16's case: a loan row whose zip_code is in no row of the establishments
\* table and a loan row without zip_code went through the merges, next to a
\* row that matched.
C16_Witness ==
    /\ pc = "return"
    /\ Len(df) = 2 /\ Len(local_df) = 2
    /\ IsNull(df[2]["zip_code"])
    /\ IsNull(local_df[2]["estab"])
    /\ ~IsNull(local_df[1]["estab"])
    /\ IsNull(local_df[1]["unemp_rate"])


=============================================================================
